---- MODULE Spec2Model ----
(***************************************************************************)
(* Model of the Companies view of the dashboard: the Dashboard component   *)
(* (refreshData, handleSortChange, realtime listener), the CompaniesView   *)
(* component (selection, bulk-action handlers, eligibility, totalPages),   *)
(* the CompanyTable selection and pagination handlers and the filter       *)
(* handlers of CompanyFiltersComponent.  The HTTP server is the            *)
(* environment: a table of company rows that answers the client's queries. *)
(***************************************************************************)
EXTENDS Integers, Sequences, FiniteSets, TLC

VARIABLES
    mounted,              \* Dashboard's first effect has run
    user,                 \* useAuth().user is non-null
    companies,            \* Dashboard.companies: the paginated slice
    totalCompanies,       \* Dashboard.totalCompanies
    contacts,             \* Dashboard.contacts
    allCompaniesForStats, \* Dashboard.allCompaniesForStats: full-set snapshot
    currentPage,          \* Dashboard.currentPage
    itemsPerPage,         \* Dashboard.itemsPerPage
    filters,              \* Dashboard.filters
    sortBy,               \* Dashboard.sortBy
    sortDir,              \* Dashboard.sortDir
    loading,              \* Dashboard.loading
    selectedCompanies,    \* CompaniesView.selectedCompanies
    inflight,             \* refreshData invocations suspended at an await
    pendingOp,            \* bulk-action handlers suspended at their await
    gen,                  \* number of refreshData invocations started so far
    errorToasts,          \* number of destructive toasts raised so far
    db,                   \* the server's company table
    writer,               \* history: which refresh wrote each piece of state
    committed,            \* history: refreshes that reached their setState block
    budget,               \* refreshData invocations explored in this session
    activeView,           \* Dashboard.activeView
    showAddDialog,        \* CompaniesView.showAddDialog
    domains,              \* AddCompaniesDialog.domains: the lines of the textarea
    groupName,            \* AddCompaniesDialog.groupName
    isLoading,            \* AddCompaniesDialog.isLoading
    addCall,              \* handleSubmit suspended at its await of addCompanies
    addedChunks,          \* the addCompanies calls the server served for the
                          \* latest submission of the dialog
    showArchiveDialog,    \* ActiveCampaigns.showArchiveDialog
    archiveCampaignType,  \* ActiveCampaigns.archiveCampaignType
    archiveCampaignName,  \* ActiveCampaigns.archiveCampaignName
    selectedContacts,     \* CampaignBuilder.selectedContacts
    campaignType,         \* CampaignBuilder.campaignType
    isCreating,           \* CampaignBuilder.isCreating
    formCalls,            \* archive / campaign handlers suspended at their await
    formToasts,           \* destructive toasts raised by the dialogs and forms
    selectedCompany,      \* CompaniesView.selectedCompany: <<>> is null
    isUpdating,           \* CompanyDetailModal.isUpdating
    detailCall,           \* onApprove / onReject suspended at its await
    viewKind,             \* a view that filters in the browser: ContactsView, or
                          \* the CompaniesView that filtered its companies prop
    viewEntities,         \* the contacts / companies prop of that view
    viewFilters,          \* its filters state
    filteredEntities,     \* filteredContacts / filteredCompanies of its render
    burst                 \* refreshes started by change notifications in the
                          \* current short window

params  == <<currentPage, itemsPerPage, filters, sortBy, sortDir>>
fetched == <<companies, totalCompanies, contacts, allCompaniesForStats>>
forms   == <<activeView, showAddDialog, domains, groupName, isLoading, addCall,
             addedChunks, showArchiveDialog, archiveCampaignType,
             archiveCampaignName, selectedContacts, campaignType,
             isCreating, formCalls, formToasts, selectedCompany, isUpdating,
             detailCall, viewKind, viewEntities, viewFilters,
             filteredEntities>>
vars    == <<mounted, user, companies, totalCompanies, contacts,
             allCompaniesForStats, currentPage, itemsPerPage, filters,
             sortBy, sortDir, loading, selectedCompanies, inflight,
             pendingOp, gen, errorToasts, db, writer, committed, budget,
             activeView, showAddDialog, domains, groupName, isLoading,
             addCall, addedChunks, showArchiveDialog, archiveCampaignType,
             archiveCampaignName, selectedContacts, campaignType,
             isCreating, formCalls, formToasts, selectedCompany, isUpdating,
             detailCall, viewKind, viewEntities, viewFilters,
             filteredEntities, burst>>

----------------------------------------------------------------------------
(* Bounds of the model *)

NumRows      == 12   \* rows in the server table at start
MaxToggled   == 1    \* newest rows whose checkbox the user clicks one by one
MaxRefreshes == 2    \* refreshData invocations explored, whole program
MaxNavRefreshes == 3 \* refreshData invocations explored, navigation only
MaxToasts    == 1    \* destructive toasts explored
MaxPendingOps == 1   \* bulk actions awaiting their response at one time
MaxLiveRefreshes == 3 \* refreshData invocations explored, live updates only
MaxStatRows  == 3    \* rows of the server tables the statistics are tried on
MaxStatRefreshes == 1 \* refreshData invocations explored, statistics only
MaxAuthRefreshes == 2 \* refreshData invocations explored, session changes

----------------------------------------------------------------------------
(* Entity model *)

Statuses == {"New", "Vetting", "Vetted", "Approved", "Failed", "Rejected"}

NoScore == -1        \* a score field that is undefined

NoDate == -1         \* a created_at that is missing

ScoreDims == {"unified", "geography", "industry", "russia", "size"}

PageSizes == {10, 20, 50, 100}

HeaderSortFields ==
    {"name", "status", "unified_score", "geography_score", "industry_score",
     "russia_score", "size_score", "created_at"}

defaultScoreRanges == [d \in ScoreDims |-> <<0, 10>>]

defaultFilters ==
    [search |-> "", status |-> <<>>, group |-> <<>>,
     scoreRanges |-> defaultScoreRanges, include_null_scores |-> "undefined"]

----------------------------------------------------------------------------
(* Array helpers (JavaScript Array.prototype semantics) *)

Includes(arr, x) == \E i \in 1..Len(arr) : arr[i] = x

Without(arr, x) == SelectSeq(arr, LAMBDA e : e # x)

Ids(rows) == [i \in 1..Len(rows) |-> rows[i].id]

IdSet(rows) == {rows[i].id : i \in 1..Len(rows)}

Range(arr) == {arr[i] : i \in 1..Len(arr)}

Reverse(arr) == [i \in 1..Len(arr) |-> arr[Len(arr) + 1 - i]]

Slice(arr, from, to) ==
    \* arr.slice(from, to) with 0-based from, exclusive to
    LET hi == IF to < Len(arr) THEN to ELSE Len(arr)
    IN  IF from >= hi THEN <<>> ELSE [i \in 1..(hi - from) |-> arr[from + i]]

HasId(rows, id) == \E i \in 1..Len(rows) : rows[i].id = id

Find(rows, id) ==
    \* rows.find(c => c.id === id); only used where HasId(rows, id)
    rows[CHOOSE i \in 1..Len(rows) :
            rows[i].id = id /\ \A j \in 1..(i - 1) : rows[j].id # id]

CeilDiv(a, b) == (a + b - 1) \div b     \* Math.ceil(a / b) for a >= 0, b > 0

----------------------------------------------------------------------------
(* The server (environment).  The table is kept in ascending id order.   *)
(* Every row carries one score value standing for its five score fields. *)

InitStatus(i) ==
    CASE i = NumRows     -> "New"
      [] i = NumRows - 1 -> "Vetted"
      [] i = NumRows - 2 -> "Approved"
      [] i = NumRows - 3 -> "Failed"
      [] i = NumRows - 4 -> "Vetting"
      [] OTHER -> "Rejected"

InitScore(i) ==
    CASE i = NumRows     -> NoScore
      [] i = NumRows - 1 -> 8
      [] i = NumRows - 2 -> 4
      [] i = NumRows - 3 -> NoScore
      [] i = NumRows - 4 -> 3
      [] OTHER -> 2

InitCreated(i) ==
    \* created_at, as the age of the row in days when the view renders
    CASE i = NumRows     -> 0
      [] i = NumRows - 1 -> 7
      [] i = NumRows - 2 -> 8
      [] i = NumRows - 3 -> NoDate
      [] OTHER -> 30

InitDb ==
    [i \in 1..NumRows |->
        [id |-> i, status |-> InitStatus(i), score |-> InitScore(i),
         group_name |-> IF i = NumRows - 1 THEN "g1" ELSE "",
         domain |-> IF i % 2 = 1 THEN "acme" ELSE "zeta",
         created_at |-> InitCreated(i)]]

RangeNarrowed(r) == r[1] > 0 \/ r[2] < 10

ServerMatches(row, f) ==
    /\ f.search = "" \/ f.search = row.domain
    /\ Len(f.status) = 0 \/ Includes(f.status, row.status)
    /\ \/ Len(f.group) = 0
       \/ row.group_name = "" /\ Includes(f.group, "No Group")
       \/ row.group_name # "" /\ Includes(f.group, row.group_name)
    /\ \A d \in ScoreDims :
          IF row.score = NoScore
          THEN ~RangeNarrowed(f.scoreRanges[d])
          ELSE f.scoreRanges[d][1] <= row.score /\ row.score <= f.scoreRanges[d][2]

ServerGetCompanies(page, limit, f, sBy, sDir) ==
    LET matching == SelectSeq(db, LAMBDA row : ServerMatches(row, f))
        ordered  == IF sDir = "asc" THEN matching ELSE Reverse(matching)
    IN  [data  |-> Slice(ordered, (page - 1) * limit, page * limit),
         count |-> Len(matching)]

getCompaniesParams(page, limit, f, sBy, sDir) ==
    \* the URLSearchParams of ApiClient.getCompanies: page, limit, search,
    \* sort_by, sort_dir, one status / group entry per element, and the
    \* <dimension>_score_min / _max pairs; no other field of the filters
    [page |-> page, limit |-> limit, search |-> f.search,
     sort_by |-> sBy, sort_dir |-> sDir,
     status |-> f.status, group |-> f.group, scoreRanges |-> f.scoreRanges]

getCompanies(page, limit, f, sBy, sDir) ==
    \* the request and the { data, count } the server answers it with
    LET q == getCompaniesParams(page, limit, f, sBy, sDir)
    IN  ServerGetCompanies(q.page, q.limit, q, q.sort_by, q.sort_dir)

ServerGetContacts ==
    Ids(SelectSeq(db, LAMBDA row : row.status = "Approved"))

ServerGetCompaniesForStats == db

ServerApply(op, ids, arg) ==
    LET hit(row) == Includes(ids, row.id)
        upd(row) ==
            CASE op = "vetCompanies"     -> [row EXCEPT !.status = "Vetting"]
              [] op = "approveCompanies" -> [row EXCEPT !.status = "Approved"]
              [] op = "rejectCompanies"  -> [row EXCEPT !.status = "Rejected"]
              [] op = "changeCompanyGroup" -> [row EXCEPT !.group_name = arg]
              [] OTHER -> row
    IN  IF op = "deleteCompanies"
        THEN SelectSeq(db, LAMBDA row : ~hit(row))
        ELSE [i \in 1..Len(db) |-> IF hit(db[i]) THEN upd(db[i]) ELSE db[i]]

----------------------------------------------------------------------------
(* Dashboard.refreshData *)

isScoreFilterActiveUnifiedOnly(f) ==
    \* faulty variant: only the unified range is looked at
    f.scoreRanges["unified"][1] > 0 \/ f.scoreRanges["unified"][2] < 10

isScoreFilterActive(f) ==
    \/ f.scoreRanges["unified"][1] > 0   \/ f.scoreRanges["unified"][2] < 10
    \/ f.scoreRanges["geography"][1] > 0 \/ f.scoreRanges["geography"][2] < 10
    \/ f.scoreRanges["industry"][1] > 0  \/ f.scoreRanges["industry"][2] < 10
    \/ f.scoreRanges["russia"][1] > 0    \/ f.scoreRanges["russia"][2] < 10
    \/ f.scoreRanges["size"][1] > 0      \/ f.scoreRanges["size"][2] < 10

NoResponse == [ready |-> FALSE, data |-> <<>>, count |-> 0]

Closure == [page |-> currentPage, limit |-> itemsPerPage, filters |-> filters,
            sortBy |-> sortBy, sortDir |-> sortDir]

NewRefresh(c) ==
    [gen |-> gen + 1, page |-> c.page, limit |-> c.limit,
     filters |-> c.filters, sortBy |-> c.sortBy, sortDir |-> c.sortDir,
     composite |-> isScoreFilterActive(c.filters), stage |-> "companies",
     scored |-> NoResponse, unscored |-> NoResponse,
     finalCompanies |-> <<>>, finalCount |-> 0]

refreshDataAs(session, c) ==
    \* the synchronous part: the guard, setLoading(true) and the first calls
    IF ~session
    THEN UNCHANGED <<loading, inflight, gen>>
    ELSE /\ gen < budget
         /\ loading' = TRUE
         /\ gen' = gen + 1
         /\ inflight' = inflight \cup {NewRefresh(c)}

refreshDataWithoutGuard(c) == refreshDataAs(TRUE, c)   \* faulty variant: no user test

refreshData(c) == refreshDataAs(user, c)

UniqueById(combined) ==
    \* Array.from(new Map(combined.map(c => [c.id, c])).values()):
    \* keys keep the position of their first occurrence, values are the last set
    LET firsts == SelectSeq([i \in 1..Len(combined) |-> i],
                    LAMBDA i : \A j \in 1..(i - 1) : combined[j].id # combined[i].id)
        lastOf(id) == CHOOSE j \in 1..Len(combined) :
                        /\ combined[j].id = id
                        /\ \A k \in (j + 1)..Len(combined) : combined[k].id # id
    IN  [n \in 1..Len(firsts) |-> combined[lastOf(combined[firsts[n]].id)]]

AfterCompanies(r) ==
    \* the code between the first await and the second one
    IF r.composite
    THEN IF r.scored.ready /\ r.unscored.ready
         THEN [r EXCEPT !.stage = "rest",
                        !.finalCompanies = UniqueById(r.scored.data \o r.unscored.data),
                        !.finalCount = r.scored.count + r.unscored.count]
         ELSE r
    ELSE [r EXCEPT !.stage = "rest",
                   !.finalCompanies = r.scored.data,
                   !.finalCount = r.scored.count]

Replace(r, r2) == (inflight \ {r}) \cup {r2}

ScoredResolve(r) ==
    /\ r \in inflight /\ r.stage = "companies" /\ ~r.scored.ready
    /\ LET resp == getCompanies(r.page, r.limit, r.filters, r.sortBy, r.sortDir)
       IN  inflight' = Replace(r, AfterCompanies(
              [r EXCEPT !.scored = [ready |-> TRUE, data |-> resp.data, count |-> resp.count]]))
    /\ UNCHANGED <<mounted, user, fetched, params, loading, selectedCompanies,
                   pendingOp, gen, errorToasts, db, writer, committed, budget, forms, burst>>

UnscoredResolve(r) ==
    /\ r \in inflight /\ r.stage = "companies" /\ r.composite /\ ~r.unscored.ready
    /\ LET resp == getCompanies(1, 1000,
                      [r.filters EXCEPT !.status = <<"New", "Failed">>,
                                        !.scoreRanges = defaultScoreRanges],
                      "created_at", "desc")
       IN  inflight' = Replace(r, AfterCompanies(
              [r EXCEPT !.unscored = [ready |-> TRUE, data |-> resp.data, count |-> resp.count]]))
    /\ UNCHANGED <<mounted, user, fetched, params, loading, selectedCompanies,
                   pendingOp, gen, errorToasts, db, writer, committed, budget, forms, burst>>

RefreshRejectAfterPartialWrite(r) ==
    \* faulty variant: the company slice and count are written before the
    \* second await, so a failure of the second round leaves a partial update
    /\ r \in inflight
    /\ errorToasts < MaxToasts
    /\ errorToasts' = errorToasts + 1
    /\ loading' = FALSE
    /\ inflight' = inflight \ {r}
    /\ companies' = IF r.stage = "rest" THEN r.finalCompanies ELSE companies
    /\ totalCompanies' = IF r.stage = "rest" THEN r.finalCount ELSE totalCompanies
    /\ UNCHANGED <<mounted, user, contacts, allCompaniesForStats, params,
                   selectedCompanies, pendingOp, gen, db, writer, committed, budget, forms, burst>>

RefreshReject(r) ==
    \* any awaited call rejects: catch raises one toast, finally clears loading
    /\ r \in inflight
    /\ errorToasts < MaxToasts
    /\ errorToasts' = errorToasts + 1
    /\ loading' = FALSE
    /\ inflight' = inflight \ {r}
    /\ UNCHANGED <<mounted, user, fetched, params, selectedCompanies,
                   pendingOp, gen, db, writer, committed, budget, forms, burst>>

RefreshCommitSliceOnly(r) ==
    \* faulty variant: the contacts and the full set of the refresh are dropped
    /\ r \in inflight /\ r.stage = "rest"
    /\ companies' = r.finalCompanies
    /\ totalCompanies' = r.finalCount
    /\ loading' = FALSE
    /\ inflight' = inflight \ {r}
    /\ writer' = [writer EXCEPT !.companies = r.gen, !.totalCompanies = r.gen]
    /\ committed' = committed \cup {r.gen}
    /\ UNCHANGED <<mounted, user, contacts, allCompaniesForStats, params,
                   selectedCompanies, pendingOp, gen, errorToasts, db, budget,
                   forms, burst>>

RefreshCommit(r) ==
    \* contacts and statistics resolve; the four setState calls; finally
    /\ r \in inflight /\ r.stage = "rest"
    /\ companies' = r.finalCompanies
    /\ totalCompanies' = r.finalCount
    /\ contacts' = ServerGetContacts
    /\ allCompaniesForStats' = ServerGetCompaniesForStats
    /\ loading' = FALSE
    /\ inflight' = inflight \ {r}
    /\ writer' = [companies |-> r.gen, totalCompanies |-> r.gen,
                  contacts |-> r.gen, allCompaniesForStats |-> r.gen]
    /\ committed' = committed \cup {r.gen}
    /\ UNCHANGED <<mounted, user, params, selectedCompanies, pendingOp, gen,
                   errorToasts, db, budget, forms, burst>>

Mount ==
    \* useEffect(() => { refreshData() }, [refreshData]) on the first render
    /\ ~mounted
    /\ mounted' = TRUE
    /\ refreshData(Closure)
    /\ UNCHANGED <<user, fetched, params, selectedCompanies, pendingOp,
                   errorToasts, db, writer, committed, budget, forms, burst>>

ManualRefresh ==
    \* Header's Refresh button: onRefresh = refreshData
    /\ mounted
    /\ refreshData(Closure)
    /\ UNCHANGED <<mounted, user, fetched, params, selectedCompanies, pendingOp,
                   errorToasts, db, writer, committed, budget, forms, burst>>

onAuthStateChange(session) ==
    \* AuthProvider sets user; refreshData depends on user, so a mounted
    \* Dashboard re-creates it and the effect calls the new one
    /\ session \in BOOLEAN /\ session # user
    /\ user' = session
    /\ IF mounted
       THEN refreshDataAs(session, Closure)
       ELSE UNCHANGED <<loading, inflight, gen>>
    /\ UNCHANGED <<mounted, fetched, params, selectedCompanies, pendingOp,
                   errorToasts, db, writer, committed, budget, forms, burst>>

----------------------------------------------------------------------------
(* Dashboard: parameter changes.  Each handler sets state; the render that *)
(* follows gives refreshData a new identity and the effect calls it.       *)

ClosureOf(page, limit, f, sBy, sDir) ==
    [page |-> page, limit |-> limit, filters |-> f, sortBy |-> sBy, sortDir |-> sDir]

totalPages == CeilDiv(totalCompanies, itemsPerPage)

TableShown == mounted /\ ~loading

FooterShown == TableShown /\ totalCompanies > 0 /\ totalPages > 1

Max(a, b) == IF a > b THEN a ELSE b

Min(a, b) == IF a < b THEN a ELSE b

PaginationItems ==
    \* renderPaginationItems: the page numbers that get a link
    IF totalPages <= 1 THEN {}
    ELSE {1} \cup (Max(2, currentPage - 2)..Min(totalPages - 1, currentPage + 2))
             \cup {totalPages}

PageTargets ==
    PaginationItems
      \cup (IF currentPage > 1 THEN {currentPage - 1} ELSE {})
      \cup (IF currentPage < totalPages THEN {currentPage + 1} ELSE {})

SetPage(n) ==
    \* onPageChange = setCurrentPage
    /\ FooterShown
    /\ n \in PageTargets /\ n # currentPage
    /\ currentPage' = n
    /\ refreshData(ClosureOf(n, itemsPerPage, filters, sortBy, sortDir))
    /\ UNCHANGED <<mounted, user, fetched, itemsPerPage, filters, sortBy, sortDir,
                   selectedCompanies, pendingOp, errorToasts, db, writer,
                   committed, budget, forms, burst>>

SetItemsPerPage(n) ==
    \* onItemsPerPageChange = setItemsPerPage
    /\ FooterShown
    /\ n \in PageSizes /\ n # itemsPerPage
    /\ itemsPerPage' = n
    /\ refreshData(ClosureOf(currentPage, n, filters, sortBy, sortDir))
    /\ UNCHANGED <<mounted, user, fetched, currentPage, filters, sortBy, sortDir,
                   selectedCompanies, pendingOp, errorToasts, db, writer,
                   committed, budget, forms, burst>>

FieldChars(field) ==
    CASE field = "name"            -> <<"n","a","m","e">>
      [] field = "domain"          -> <<"d","o","m","a","i","n">>
      [] field = "status"          -> <<"s","t","a","t","u","s">>
      [] field = "created_at"      -> <<"c","r","e","a","t","e","d","_","a","t">>
      [] field = "unified_score"   -> <<"u","n","i","f","i","e","d","_","s","c","o","r","e">>
      [] field = "geography_score" -> <<"g","e","o","g","r","a","p","h","y","_","s","c","o","r","e">>
      [] field = "industry_score"  -> <<"i","n","d","u","s","t","r","y","_","s","c","o","r","e">>
      [] field = "russia_score"    -> <<"r","u","s","s","i","a","_","s","c","o","r","e">>
      [] field = "size_score"      -> <<"s","i","z","e","_","s","c","o","r","e">>

StrIncludes(hay, needle) ==
    \* String.prototype.includes on character sequences
    \E k \in 0..(Len(hay) - Len(needle)) :
        \A i \in 1..Len(needle) : hay[k + i] = needle[i]

DefaultDirectionAlwaysAsc(field) == "asc"    \* faulty variant: no '_score' test

DefaultDirection(field) ==
    IF StrIncludes(FieldChars(field), <<"_","s","c","o","r","e">>) THEN "desc" ELSE "asc"

SortAfter(field) ==
    \* the sortBy/sortDir that handleSortChange(field) sets
    IF sortBy = field
    THEN [sortBy |-> sortBy, sortDir |-> IF sortDir = "asc" THEN "desc" ELSE "asc"]
    ELSE [sortBy |-> field, sortDir |-> DefaultDirection(field)]

PageKeptAfterSort == currentPage     \* faulty variant: no setCurrentPage(1)

PageAfterSort == 1      \* setCurrentPage(1) at the end of handleSortChange

handleSortChange(field) ==
    /\ TableShown
    /\ field \in HeaderSortFields
    /\ sortBy' = SortAfter(field).sortBy
    /\ sortDir' = SortAfter(field).sortDir
    /\ currentPage' = PageAfterSort
    /\ refreshData(ClosureOf(PageAfterSort, itemsPerPage, filters,
                             SortAfter(field).sortBy, SortAfter(field).sortDir))
    /\ UNCHANGED <<mounted, user, fetched, itemsPerPage, filters,
                   selectedCompanies, pendingOp, errorToasts, db, writer,
                   committed, budget, forms, burst>>

----------------------------------------------------------------------------
(* CompanyFiltersComponent: every handler ends in onFiltersChange = setFilters *)

SearchInputs == {"", "acme"}

NarrowRanges == {<<7, 10>>, <<0, 5>>}

ScoreRangeInputs ==
    {defaultScoreRanges} \cup
    {[defaultScoreRanges EXCEPT ![d] = r] : d \in ScoreDims, r \in NarrowRanges}

FiltersShown == mounted /\ Len(selectedCompanies) = 0

GroupChoices ==
    LET groups == {allCompaniesForStats[i].group_name :
                     i \in 1..Len(allCompaniesForStats)} \ {""}
    IN  IF groups = {} THEN {} ELSE groups \cup {"No Group"}

onFiltersChange(f) ==
    /\ FiltersShown
    /\ filters' = f
    /\ refreshData(ClosureOf(currentPage, itemsPerPage, f, sortBy, sortDir))
    /\ UNCHANGED <<mounted, user, fetched, currentPage, itemsPerPage, sortBy,
                   sortDir, selectedCompanies, pendingOp, errorToasts, db,
                   writer, committed, budget, forms, burst>>

handleStatusToggle(status) ==
    onFiltersChange([filters EXCEPT !.status =
        IF Includes(filters.status, status)
        THEN Without(filters.status, status)
        ELSE Append(filters.status, status)])

handleGroupToggle(group) ==
    /\ group \in GroupChoices
    /\ onFiltersChange([filters EXCEPT !.group =
        IF Includes(filters.group, group)
        THEN Without(filters.group, group)
        ELSE Append(filters.group, group)])

handleSearchChange(text) ==
    /\ text # filters.search
    /\ onFiltersChange([filters EXCEPT !.search = text])

applyScoreFilters(localScoreRanges) ==
    onFiltersChange([filters EXCEPT !.scoreRanges = localScoreRanges])

handleIncludeNullScores ==
    \* the Switch reports the negation of what it shows
    onFiltersChange([filters EXCEPT !.include_null_scores =
        IF filters.include_null_scores = "true" THEN "false" ELSE "true"])

clearFilters ==
    onFiltersChange([defaultFilters EXCEPT !.include_null_scores = "true"])

----------------------------------------------------------------------------
(* CompanyTable: selection handlers *)

handleSelectAllFiltered ==
    \* faulty variant: selects every company of the full set
    /\ TableShown
    /\ LET checked == ~(Len(selectedCompanies) = Len(companies) /\ Len(companies) > 0)
       IN  selectedCompanies' = IF checked THEN Ids(allCompaniesForStats) ELSE <<>>
    /\ UNCHANGED <<mounted, user, fetched, params, loading, inflight, pendingOp,
                   gen, errorToasts, db, writer, committed, budget, forms, burst>>

handleSelectAll ==
    \* the header checkbox reports the negation of what it shows
    /\ TableShown
    /\ LET checked == ~(Len(selectedCompanies) = Len(companies) /\ Len(companies) > 0)
       IN  selectedCompanies' = IF checked THEN Ids(companies) ELSE <<>>
    /\ UNCHANGED <<mounted, user, fetched, params, loading, inflight, pendingOp,
                   gen, errorToasts, db, writer, committed, budget, forms, burst>>

handleSelectCompany(companyId) ==
    \* a row checkbox reports the negation of what it shows
    /\ TableShown
    /\ companyId \in IdSet(companies) /\ companyId > NumRows - MaxToggled
    /\ LET checked == ~Includes(selectedCompanies, companyId)
       IN  selectedCompanies' = IF checked
                                THEN Append(selectedCompanies, companyId)
                                ELSE Without(selectedCompanies, companyId)
    /\ UNCHANGED <<mounted, user, fetched, params, loading, inflight, pendingOp,
                   gen, errorToasts, db, writer, committed, budget, forms, burst>>

----------------------------------------------------------------------------
(* CompaniesView: statistics.  A JavaScript number is modelled as a        *)
(* fraction, NaN or Infinity, so that a division by zero is what it is.    *)

Num(n) == [kind |-> "finite", num |-> n, den |-> 1]

NaN == [kind |-> "NaN", num |-> 0, den |-> 1]

Infinity == [kind |-> "Infinity", num |-> 0, den |-> 1]

JsDivide(a, b) ==
    \* a / b for non-negative integers a and b
    IF b # 0 THEN [kind |-> "finite", num |-> a, den |-> b]
    ELSE IF a = 0 THEN NaN ELSE Infinity

JsTimes(x, n) ==
    \* x * n for a positive integer n
    IF x.kind = "finite" THEN [x EXCEPT !.num = x.num * n] ELSE x

isNaN(x) == x.kind = "NaN"

DaysInWeek == 7      \* oneWeekAgo.setDate(oneWeekAgo.getDate() - 7)

companiesThisWeek(rows) ==
    Len(SelectSeq(rows, LAMBDA c :
        c.created_at # NoDate /\ c.created_at <= DaysInWeek))

weeklyGrowthDividingByPrevious(thisWeek, total) ==
    \* faulty variant: an earlier revision divides whenever total > 0
    IF total > 0 THEN JsTimes(JsDivide(thisWeek, total - thisWeek), 100) ELSE Num(0)

weeklyGrowth(thisWeek, total) ==
    LET previousTotal == total - thisWeek
    IN  IF previousTotal > 0
        THEN JsTimes(JsDivide(thisWeek, previousTotal), 100)
        ELSE IF total > 0 THEN Num(100) ELSE Num(0)

CountStatus(rows, status) == Len(SelectSeq(rows, LAMBDA c : c.status = status))

statisticsOf(rows) ==
    LET total == Len(rows)
        growth == weeklyGrowth(companiesThisWeek(rows), total)
    IN  [total |-> total,
         new |-> CountStatus(rows, "New"),
         vetting |-> CountStatus(rows, "Vetting"),
         approved |-> CountStatus(rows, "Approved"),
         vetted |-> CountStatus(rows, "Vetted"),
         weeklyGrowth |-> IF isNaN(growth) THEN Num(0) ELSE growth]

statisticsOfSlice == statisticsOf(companies)   \* faulty variant: the page's rows

statistics == statisticsOf(allCompaniesForStats)

----------------------------------------------------------------------------
(* CompaniesView: bulk-action eligibility and handlers *)

selectedCompanyObjects ==
    LET found == SelectSeq(selectedCompanies,
                           LAMBDA id : HasId(allCompaniesForStats, id))
    IN  [i \in 1..Len(found) |-> Find(allCompaniesForStats, found[i])]

Some(rows, allowed) == \E i \in 1..Len(rows) : rows[i].status \in allowed

canApprove ==
    IF Len(selectedCompanies) = 0 THEN FALSE
    ELSE Some(selectedCompanyObjects, {"Vetted"})

canRejectVettedOnly ==
    \* faulty variant: 'New' left out of the rejectable statuses
    IF Len(selectedCompanies) = 0 THEN FALSE
    ELSE Some(selectedCompanyObjects, {"Vetted"})

canReject ==
    IF Len(selectedCompanies) = 0 THEN FALSE
    ELSE Some(selectedCompanyObjects, {"Vetted", "New"})

canVet ==
    IF Len(selectedCompanies) = 0 THEN FALSE
    ELSE Some(selectedCompanyObjects, {"New", "Failed"})

idsToVet ==
    SelectSeq(selectedCompanies, LAMBDA id :
        /\ HasId(allCompaniesForStats, id)
        /\ Find(allCompaniesForStats, id).status \in {"New", "Failed"})

processableIdsUnfiltered(action) == selectedCompanies   \* faulty variant: no status filter

processableIds(action) ==
    SelectSeq(selectedCompanies, LAMBDA id :
        IF ~HasId(allCompaniesForStats, id) THEN FALSE
        ELSE IF action = "approve"
             THEN Find(allCompaniesForStats, id).status = "Vetted"
        ELSE IF action = "reject"
             THEN Find(allCompaniesForStats, id).status \in {"Vetted", "New"}
        ELSE FALSE)

ActionBarShown == mounted /\ Len(selectedCompanies) > 0

GroupNameInputs == {"g2"}

Call(handler, op, ids, arg) ==
    \* a handler suspended at its await of apiClient.<op>(ids); onRefresh and
    \* selectedCompanies are the ones of the render the handler was created in
    [handler |-> handler, op |-> op, ids |-> ids, arg |-> arg, onRefresh |-> Closure]

Issue(call) ==
    /\ Cardinality(pendingOp) < MaxPendingOps
    /\ pendingOp' = pendingOp \cup {call}
    /\ UNCHANGED errorToasts

ValidationToast ==
    /\ errorToasts < MaxToasts
    /\ errorToasts' = errorToasts + 1
    /\ UNCHANGED pendingOp

handleVetCompanies(companyIds) ==
    \* called with its own ID list by the Vet All button of VettingWorkflow
    IF Len(companyIds) = 0
    THEN ValidationToast
    ELSE Issue(Call("handleVetCompanies", "vetCompanies", companyIds, ""))

newCompanies == SelectSeq(allCompaniesForStats, LAMBDA c : c.status = "New")

handleVetAll ==
    \* the button is rendered when newCompanies is not empty
    /\ mounted
    /\ Len(newCompanies) > 0
    /\ handleVetCompanies(Ids(newCompanies))
    /\ UNCHANGED <<mounted, user, fetched, params, loading, selectedCompanies,
                   inflight, gen, db, writer, committed, budget, forms, burst>>

handleVetSelected ==
    /\ ActionBarShown
    /\ IF Len(idsToVet) > 0
       THEN Issue(Call("handleVetSelected", "vetCompanies", idsToVet, ""))
       ELSE ValidationToast
    /\ UNCHANGED <<mounted, user, fetched, params, loading, selectedCompanies,
                   inflight, gen, db, writer, committed, budget, forms, burst>>

handleApproveRejectSelectedUnchecked(action) ==
    \* faulty variant: no test of processableIds.length
    /\ ActionBarShown
    /\ Issue(Call("handleApproveRejectSelected",
                  IF action = "approve" THEN "approveCompanies"
                                        ELSE "rejectCompanies",
                  processableIds(action), ""))
    /\ UNCHANGED <<mounted, user, fetched, params, loading, selectedCompanies,
                   inflight, gen, db, writer, committed, budget, forms, burst>>

handleApproveRejectSelected(action) ==
    /\ ActionBarShown
    /\ IF Len(processableIds(action)) = 0
       THEN ValidationToast
       ELSE Issue(Call("handleApproveRejectSelected",
                       IF action = "approve" THEN "approveCompanies"
                                             ELSE "rejectCompanies",
                       processableIds(action), ""))
    /\ UNCHANGED <<mounted, user, fetched, params, loading, selectedCompanies,
                   inflight, gen, db, writer, committed, budget, forms, burst>>

handleDeleteSelected ==
    /\ ActionBarShown
    /\ Len(selectedCompanies) # 0
    /\ Issue(Call("handleDeleteSelected", "deleteCompanies", selectedCompanies, ""))
    /\ UNCHANGED <<mounted, user, fetched, params, loading, selectedCompanies,
                   inflight, gen, db, writer, committed, budget, forms, burst>>

handleChangeGroupSelected(newGroupName) ==
    \* the prompt was answered (a cancelled prompt returns before any effect)
    /\ ActionBarShown
    /\ newGroupName \in GroupNameInputs
    /\ Issue(Call("handleChangeGroupSelected", "changeCompanyGroup",
                  selectedCompanies, newGroupName))
    /\ UNCHANGED <<mounted, user, fetched, params, loading, selectedCompanies,
                   inflight, gen, db, writer, committed, budget, forms, burst>>

SelectionKeptAfterSuccess(call) == selectedCompanies   \* faulty variant: no clearing

SelectionAfterSuccess(call) ==
    \* setSelectedCompanies([]) after the await, in the handlers of the action bar
    IF call.handler = "handleVetCompanies" THEN selectedCompanies ELSE <<>>

BulkResolve(call) ==
    \* the external call succeeds: toast, clear the selection, onRefresh()
    /\ call \in pendingOp
    /\ pendingOp' = pendingOp \ {call}
    /\ db' = ServerApply(call.op, call.ids, call.arg)
    /\ selectedCompanies' = SelectionAfterSuccess(call)
    /\ refreshData(call.onRefresh)
    /\ UNCHANGED <<mounted, user, fetched, params, errorToasts, writer, committed, budget, forms, burst>>

BulkReject(call) ==
    \* the external call fails: the catch block raises one destructive toast;
    \* handleVetSelected goes on to clear the selection after handleVetCompanies
    /\ call \in pendingOp
    /\ errorToasts < MaxToasts
    /\ pendingOp' = pendingOp \ {call}
    /\ errorToasts' = errorToasts + 1
    /\ selectedCompanies' = IF call.handler = "handleVetSelected"
                            THEN <<>> ELSE selectedCompanies
    /\ UNCHANGED <<mounted, user, fetched, params, loading, inflight, gen, db,
                   writer, committed, budget, forms, burst>>

----------------------------------------------------------------------------
(* Dashboard: realtime listener.  The server finishes vetting a company    *)
(* (or the change is one of the client's own) and the channel notifies.    *)

VettingOutcomes ==
    {db} \cup
    {[db EXCEPT ![i] = [@ EXCEPT !.status = "Vetted", !.score = 8]] :
        i \in {j \in 1..Len(db) : db[j].status = "Vetting"}} \cup
    {[db EXCEPT ![i] = [@ EXCEPT !.status = "Failed"]] :
        i \in {j \in 1..Len(db) : db[j].status = "Vetting"}}

RealtimeChange(newDb) ==
    \* the channel exists only while there is a user; the handler raises an
    \* informational toast and calls refreshData at once
    /\ mounted /\ user
    /\ newDb \in VettingOutcomes
    /\ db' = newDb
    /\ refreshData(Closure)
    /\ burst' = burst + 1
    /\ UNCHANGED <<mounted, user, fetched, params, selectedCompanies, pendingOp,
                   errorToasts, writer, committed, budget, forms>>

WindowElapses ==
    \* the short window in which notifications count as one burst is over
    /\ burst > 0
    /\ burst' = 0
    /\ UNCHANGED <<mounted, user, fetched, params, loading, selectedCompanies,
                   inflight, pendingOp, gen, errorToasts, db, writer, committed,
                   budget, forms>>

----------------------------------------------------------------------------
(* Specification *)

----------------------------------------------------------------------------
(* Filtering in the browser: ContactsView.filteredContacts and the        *)
(* filteredCompanies of the CompaniesView that received every company     *)

MaxEntities == 3     \* length of the list a view is given

\* strings are sequences of characters; "A" is the upper case of "a"
Undefined == <<"?">>     \* an optional field that is absent

toLowerCase(str) == [i \in 1..Len(str) |-> IF str[i] = "A" THEN "a" ELSE str[i]]

OptIncludesLower(field, searchLower) ==
    \* field?.toLowerCase().includes(searchLower): undefined when absent
    field # Undefined /\ StrIncludes(toLowerCase(field), searchLower)

contactsDefaultFilters ==
    [search |-> <<>>, status |-> <<>>, campaignStatus |-> <<>>, companyName |-> <<>>]

matchesContact(contact, f) ==
    /\ f.search # <<>> =>
          LET searchLower == toLowerCase(f.search)
          IN  \/ StrIncludes(toLowerCase(contact.name), searchLower)
              \/ OptIncludesLower(contact.email, searchLower)
              \/ OptIncludesLower(contact.company_name, searchLower)
              \/ OptIncludesLower(contact.title, searchLower)
    /\ ~(Len(f.status) > 0 /\ ~Includes(f.status, contact.status))
    /\ Len(f.campaignStatus) > 0 =>
          Includes(f.campaignStatus,
                   \* contact.campaign_status || "Ready to Assign"
                   IF contact.campaign_status = ""
                   THEN "Ready to Assign" ELSE contact.campaign_status)
    /\ Len(f.companyName) > 0 =>
          /\ contact.company_name # Undefined
          /\ Includes(f.companyName, contact.company_name)

filteredContactsFromSecond(list, f) ==
    \* faulty variant: the first match is dropped
    LET kept == SelectSeq(list, LAMBDA contact : matchesContact(contact, f))
    IN  IF kept = <<>> THEN <<>> ELSE Tail(kept)

filteredContacts(list, f) ==
    SelectSeq(list, LAMBDA contact : matchesContact(contact, f))

matchesCompany(company, f) ==
    /\ f.search # <<>> =>
          LET searchLower == toLowerCase(f.search)
          IN  \/ OptIncludesLower(company.name, searchLower)
              \/ StrIncludes(toLowerCase(company.domain), searchLower)
    /\ ~(Len(f.status) > 0 /\ ~Includes(f.status, company.status))
    /\ Len(f.group) > 0 =>
          /\ ~(company.group_name = "" /\ ~Includes(f.group, "No Group"))
          /\ ~(company.group_name # "" /\ ~Includes(f.group, company.group_name))
    /\ \A d \in ScoreDims :
          company.scores[d] # NoScore =>
              ~(company.scores[d] < f.scoreRanges[d][1]
                  \/ company.scores[d] > f.scoreRanges[d][2])

filteredCompanies(list, f) ==
    SelectSeq(list, LAMBDA company : matchesCompany(company, f))

clientFilter(kind, list, f) ==
    IF kind = "contacts" THEN filteredContacts(list, f) ELSE filteredCompanies(list, f)

ContactInputs ==
    {[name |-> <<"A", "b">>, email |-> Undefined, company_name |-> <<"a">>,
      title |-> Undefined, status |-> "Enriched", campaign_status |-> ""],
     [name |-> <<"b">>, email |-> <<"a", "b">>, company_name |-> Undefined,
      title |-> <<"A">>, status |-> "Enriched", campaign_status |-> "In Campaign"],
     [name |-> <<"b", "b">>, email |-> Undefined, company_name |-> <<"b">>,
      title |-> Undefined, status |-> "Pending", campaign_status |-> "Ready to Assign"],
     [name |-> <<"a">>, email |-> Undefined, company_name |-> <<"a">>,
      title |-> Undefined, status |-> "Pending", campaign_status |-> ""]}

CompanyInputs ==
    {[name |-> Undefined, domain |-> <<"A", "b">>, status |-> "New", group_name |-> "",
      scores |-> [d \in ScoreDims |-> NoScore]],
     [name |-> <<"a">>, domain |-> <<"b">>, status |-> "Vetted", group_name |-> "g1",
      scores |-> [d \in ScoreDims |-> 8]],
     [name |-> <<"b">>, domain |-> <<"b", "a">>, status |-> "Vetted", group_name |-> "",
      scores |-> [d \in ScoreDims |-> IF d = "unified" THEN 3 ELSE NoScore]],
     [name |-> Undefined, domain |-> <<"b">>, status |-> "New", group_name |-> "g1",
      scores |-> [d \in ScoreDims |-> 5]]}

ListsOver(S) == UNION {[1..n -> S] : n \in 0..MaxEntities}

SearchTexts == {<<>>, <<"a">>, <<"A", "b">>}

ContactsFilterInputs ==
    {[search |-> q, status |-> st, campaignStatus |-> cs, companyName |-> cn] :
        q \in SearchTexts, st \in {<<>>, <<"Enriched">>},
        cs \in {<<>>, <<"Ready to Assign">>}, cn \in {<<>>, << <<"a">> >>}}

companiesDefaultFilters ==
    [search |-> <<>>, status |-> <<>>, group |-> <<>>, scoreRanges |-> defaultScoreRanges]

CompaniesFilterInputs ==
    {[search |-> q, status |-> st, group |-> g, scoreRanges |-> r] :
        q \in SearchTexts, st \in {<<>>, <<"Vetted">>},
        g \in {<<>>, <<"No Group">>, <<"g1">>}, r \in ScoreRangeInputs}

\* everything but the state of the filtering view
viewRest == <<mounted, user, fetched, params, loading, selectedCompanies,
              inflight, pendingOp, gen, errorToasts, db, writer, committed,
              budget, burst, activeView, showAddDialog, domains, groupName,
              isLoading, addCall, addedChunks, showArchiveDialog,
              archiveCampaignType, archiveCampaignName, selectedContacts,
              campaignType, isCreating, formCalls, formToasts,
              selectedCompany, isUpdating, detailCall>>

setViewFilters(f) ==
    \* onFiltersChange = setFilters, and the render that follows
    /\ f \in (IF viewKind = "contacts" THEN ContactsFilterInputs ELSE CompaniesFilterInputs)
    /\ f # viewFilters
    /\ viewFilters' = f
    /\ filteredEntities' = clientFilter(viewKind, viewEntities, f)
    /\ UNCHANGED <<viewKind, viewEntities, viewRest>>

setViewEntities(list) ==
    \* the parent passes another list, and the render that follows
    /\ list # viewEntities
    /\ viewEntities' = list
    /\ filteredEntities' = clientFilter(viewKind, list, viewFilters)
    /\ UNCHANGED <<viewKind, viewFilters, viewRest>>

NoAddCall == [active |-> FALSE, live |-> FALSE, list |-> <<>>, group |-> "",
              i |-> 0, onSuccess |-> Closure]

InitCore(b, table) ==
    /\ mounted = FALSE
    /\ user = TRUE
    /\ companies = <<>>
    /\ totalCompanies = 0
    /\ contacts = <<>>
    /\ allCompaniesForStats = <<>>
    /\ currentPage = 1
    /\ itemsPerPage = 10
    /\ filters = defaultFilters
    /\ sortBy = "created_at"
    /\ sortDir = "desc"
    /\ loading = TRUE
    /\ selectedCompanies = <<>>
    /\ inflight = {}
    /\ pendingOp = {}
    /\ gen = 0
    /\ errorToasts = 0
    /\ db = table
    /\ writer = [companies |-> 0, totalCompanies |-> 0, contacts |-> 0,
                 allCompaniesForStats |-> 0]
    /\ committed = {}
    /\ budget = b
    /\ activeView = "companies"
    /\ showAddDialog = FALSE
    /\ domains = <<>>
    /\ groupName = ""
    /\ isLoading = FALSE
    /\ addCall = NoAddCall
    /\ addedChunks = <<>>
    /\ showArchiveDialog = FALSE
    /\ archiveCampaignType = "email"
    /\ archiveCampaignName = ""
    /\ selectedContacts = <<>>
    /\ campaignType = "email"
    /\ isCreating = FALSE
    /\ formCalls = {}
    /\ formToasts = 0
    /\ selectedCompany = <<>>
    /\ isUpdating = FALSE
    /\ detailCall = <<>>
    /\ burst = 0

InitFrom(b, table) ==
    /\ InitCore(b, table)
    /\ viewKind = "contacts"
    /\ viewEntities = <<>>
    /\ viewFilters = contactsDefaultFilters
    /\ filteredEntities = <<>>

InitWith(b) == InitFrom(b, InitDb)

Init == InitWith(MaxRefreshes)

Next ==
    \/ Mount
    \/ ManualRefresh
    \/ \E r \in inflight : ScoredResolve(r)
    \/ \E r \in inflight : UnscoredResolve(r)
    \/ \E r \in inflight : RefreshReject(r)
    \/ \E r \in inflight : RefreshCommit(r)
    \/ \E n \in 1..(NumRows + 1) : SetPage(n)
    \/ \E n \in PageSizes : SetItemsPerPage(n)
    \/ \E field \in HeaderSortFields : handleSortChange(field)
    \/ \E status \in Statuses : handleStatusToggle(status)
    \/ \E group \in GroupChoices : handleGroupToggle(group)
    \/ \E text \in SearchInputs : handleSearchChange(text)
    \/ \E ranges \in ScoreRangeInputs : applyScoreFilters(ranges)
    \/ handleIncludeNullScores
    \/ clearFilters
    \/ handleSelectAll
    \/ \E id \in 1..NumRows : handleSelectCompany(id)
    \/ handleVetAll
    \/ handleVetSelected
    \/ \E action \in {"approve", "reject"} : handleApproveRejectSelected(action)
    \/ handleDeleteSelected
    \/ \E name \in GroupNameInputs : handleChangeGroupSelected(name)
    \/ \E call \in pendingOp : BulkResolve(call)
    \/ \E call \in pendingOp : BulkReject(call)
    \/ \E newDb \in VettingOutcomes : RealtimeChange(newDb)

Spec == Init /\ [][Next]_vars

(* A session in which the user only navigates: pagination, page size, sort *)
(* and filters, with the refreshes they start.                             *)

NavInit == InitWith(MaxNavRefreshes)

NavNext ==
    \/ Mount
    \/ ManualRefresh
    \/ \E r \in inflight : ScoredResolve(r)
    \/ \E r \in inflight : UnscoredResolve(r)
    \/ \E r \in inflight : RefreshReject(r)
    \/ \E r \in inflight : RefreshCommit(r)
    \/ \E n \in 1..(NumRows + 1) : SetPage(n)
    \/ \E n \in PageSizes : SetItemsPerPage(n)
    \/ \E field \in HeaderSortFields : handleSortChange(field)
    \/ \E status \in Statuses : handleStatusToggle(status)
    \/ \E group \in GroupChoices : handleGroupToggle(group)
    \/ \E text \in SearchInputs : handleSearchChange(text)
    \/ \E ranges \in ScoreRangeInputs : applyScoreFilters(ranges)
    \/ handleIncludeNullScores
    \/ clearFilters

NavSpec == NavInit /\ [][NavNext]_vars

(* A session in which the server's table changes under a score filter:    *)
(* the composite refresh and the change notifications.                     *)

LiveInit == InitWith(MaxLiveRefreshes)

LiveNext ==
    \/ Mount
    \/ \E r \in inflight : ScoredResolve(r)
    \/ \E r \in inflight : UnscoredResolve(r)
    \/ \E r \in inflight : RefreshReject(r)
    \/ \E r \in inflight : RefreshCommit(r)
    \/ \E ranges \in ScoreRangeInputs : applyScoreFilters(ranges)
    \/ \E newDb \in VettingOutcomes : RealtimeChange(newDb)
    \/ WindowElapses

LiveSpec == LiveInit /\ [][LiveNext]_vars

(* A session that ends and starts again under a mounted Dashboard.        *)

AuthInit == InitWith(MaxAuthRefreshes)

AuthNext ==
    \/ \E session \in BOOLEAN : onAuthStateChange(session)
    \/ Mount
    \/ ManualRefresh
    \/ \E r \in inflight : ScoredResolve(r)
    \/ \E r \in inflight : RefreshReject(r)
    \/ \E r \in inflight : RefreshCommit(r)
    \/ \E n \in 1..(NumRows + 1) : SetPage(n)
    \/ \E field \in HeaderSortFields : handleSortChange(field)
    \/ \E newDb \in VettingOutcomes : RealtimeChange(newDb)

AuthSpec == AuthInit /\ [][AuthNext]_vars

(* The first load, from any small server table: the statistics cards.     *)

StatAges == {NoDate, 0, DaysInWeek, DaysInWeek + 1}

StatRow(i, status, age) ==
    [id |-> i, status |-> status, score |-> NoScore, group_name |-> "",
     domain |-> "acme", created_at |-> age]

StatsTables ==
    UNION {{[i \in 1..n |-> StatRow(i, st[i], age[i])] :
               st \in [1..n -> {"New", "Approved"}], age \in [1..n -> StatAges]} :
           n \in 0..MaxStatRows}

StatsInit == \E table \in StatsTables : InitFrom(MaxStatRefreshes, table)

StatsNext ==
    \/ Mount
    \/ \E r \in inflight : ScoredResolve(r)
    \/ \E r \in inflight : RefreshReject(r)
    \/ \E r \in inflight : RefreshCommit(r)

StatsSpec == StatsInit /\ [][StatsNext]_vars

----------------------------------------------------------------------------
(* Properties *)

InFlightGens == {r.gen : r \in inflight}

\* C1: a refresh that is not the most recently started one never overwrites
\* the companies slice, the total count or the statistics snapshot written by
\* a later one: whatever has committed, each of the three is the result of
\* the latest committed generation.
\* refreshData keeps no generation and cancels nothing, so this fails.
C1_StaleRefreshNeverOverwrites ==
    \A g \in committed :
        /\ writer.companies >= g
        /\ writer.totalCompanies >= g
        /\ writer.allCompaniesForStats >= g

\* C2: a step in which a refresh ends without committing (one of its external
\* calls failed) leaves the companies slice, the total count, the contacts
\* and the statistics snapshot as they were and raises exactly one error toast.
C2_FailedRefreshWritesNothing ==
    [][(\E g \in InFlightGens : g \notin InFlightGens' /\ g \notin committed')
         => (UNCHANGED fetched /\ errorToasts' = errorToasts + 1)]_vars

\* a second refresh has failed after its companies came back or before,
\* and the data of the first one is still on screen
C2_Witness ==
    /\ committed = {1} /\ gen = 2 /\ inflight = {}
    /\ errorToasts = 1 /\ ~loading
    /\ Len(companies) > 0 /\ totalCompanies = NumRows
    /\ filters # defaultFilters

AllowedStatuses(action) ==
    CASE action = "vet"     -> {"New", "Failed"}
      [] action = "approve" -> {"Vetted"}
      [] action = "reject"  -> {"Vetted", "New"}

\* the statuses of the selected IDs that resolve in the statistics snapshot
ResolvedStatuses ==
    {row.status : row \in {row \in Range(allCompaniesForStats) :
                                    row.id \in Range(selectedCompanies)}}

Eligible(action) ==
    /\ selectedCompanies # <<>>
    /\ ~(ResolvedStatuses \cap AllowedStatuses(action) = {})

\* C3: each bulk-action flag is false when the selection is empty, false when
\* every selected company resolved against the full entity set has a status
\* outside the action's allowed set (vet: New, Failed; approve: Vetted;
\* reject: Vetted, New), and true in every other case.
C3_EligibilityFlags ==
    /\ canVet = Eligible("vet")
    /\ canApprove = Eligible("approve")
    /\ canReject = Eligible("reject")

\* a selection for which the three flags differ, and one for which none holds
C3_Witness ==
    /\ Len(selectedCompanies) > 0
    /\ canVet /\ canReject /\ ~canApprove
    /\ "New" \in ResolvedStatuses /\ "Vetted" \notin ResolvedStatuses

EligibleIds(action) ==
    {id \in Range(selectedCompanies) :
        \E row \in Range(allCompaniesForStats) :
            row.id = id /\ row.status \in AllowedStatuses(action)}

ActionOfOp(op) ==
    CASE op = "vetCompanies"     -> "vet"
      [] op = "approveCompanies" -> "approve"
      [] op = "rejectCompanies"  -> "reject"

\* C4: when a vet, approve or reject bulk action is invoked on a selection,
\* the IDs sent in the external call are exactly the selected IDs whose
\* company has an eligible status; ineligible selected IDs are not sent.
C4_OnlyEligibleIdsSent ==
    [][\A call \in pendingOp' \ pendingOp :
          call.handler \in {"handleVetSelected", "handleApproveRejectSelected"}
            => /\ Range(call.ids) = EligibleIds(ActionOfOp(call.op))
               /\ Len(call.ids) = Cardinality(EligibleIds(ActionOfOp(call.op)))]_vars

\* an approve call in flight that carries fewer IDs than are selected
C4_Witness ==
    \E call \in pendingOp :
        /\ call.op = "approveCompanies"
        /\ Len(call.ids) > 0
        /\ Len(call.ids) < Len(selectedCompanies)
        /\ Range(call.ids) \subseteq Range(selectedCompanies)

C6_SelectionWithinCommittedSlice ==
    [][committed' # committed
         => Range(selectedCompanies') \subseteq IdSet(companies')]_vars

\* C7: every change of itemsPerPage or of the filter record sets currentPage
\* to 1.
\* Dashboard hands setItemsPerPage and setFilters to the view unwrapped, so
\* the page stays where it was and this fails.
C7_ParamChangeResetsPage ==
    [][(itemsPerPage' # itemsPerPage \/ filters' # filters) => currentPage' = 1]_vars

ScoreSortFields ==
    {"unified_score", "geography_score", "industry_score", "russia_score", "size_score"}

\* C8: toggleSort(field) with the current sort field keeps the field and
\* flips the direction; with another field it adopts the field, with
\* direction desc when the field is one of the score fields (its name
\* contains '_score') and asc otherwise.  Stated for every sortable column
\* in every state that is reached.
C8_ToggleSort ==
    /\ \A field \in HeaderSortFields :
          SortAfter(field) =
            IF field = sortBy
            THEN [sortBy |-> sortBy, sortDir |-> CHOOSE d \in {"asc", "desc"} : d # sortDir]
            ELSE [sortBy |-> field,
                  sortDir |-> IF field \in ScoreSortFields THEN "desc" ELSE "asc"]
    /\ sortDir \in {"asc", "desc"}

\* a score field was adopted (desc) and toggled again (asc)
C8_Witness ==
    /\ sortBy = "unified_score" /\ sortDir = "asc"
    /\ \E r \in inflight : r.sortBy = "unified_score" /\ r.sortDir = "asc"

\* C9: every step that changes the sort field or the sort direction sets
\* currentPage to 1.
C9_SortResetsPage ==
    [][(sortBy' # sortBy \/ sortDir' # sortDir)
         => /\ currentPage' = 1
            /\ \E r \in inflight' \ inflight : r.page = 1]_vars

\* the second page of the default listing is still on screen while the
\* refresh started by a sort change asks for page 1
C9_Witness ==
    /\ Ids(companies) = <<2, 1>>
    /\ sortBy = "name" /\ currentPage = 1
    /\ \E r \in inflight : r.sortBy = "name" /\ r.page = 1

\* the least n >= 1 with n * itemsPerPage >= totalCompanies
PagesNeeded ==
    CHOOSE n \in 1..(totalCompanies + 1) :
        /\ n * itemsPerPage >= totalCompanies
        /\ \A m \in 1..(n - 1) : m * itemsPerPage < totalCompanies

\* C10: the total page count handed to the table is
\* max(1, ceil(totalCount / itemsPerPage)).
\* CompaniesView passes Math.ceil(totalCompanies / itemsPerPage), which is 0
\* for an empty result, so this fails.
C10_TotalPagesAtLeastOne ==
    TableShown => totalPages = PagesNeeded

\* C11: in every reachable state 1 <= currentPage <= totalPages (the page
\* count being at least 1): the pagination controls never set a page outside
\* the range, and after the total count shrinks currentPage does not keep
\* pointing at a page that no longer exists.
\* The controls stay in range, but nothing moves currentPage when a refresh
\* reports fewer results, so this fails.
C11_PageWithinBounds ==
    /\ currentPage >= 1
    /\ currentPage <= PagesNeeded

\* C12: when the composite refresh merges the primary and the auxiliary
\* response, each company ID appears exactly once in the merged slice and,
\* for an ID returned by both, the record kept is the primary one.
\* new Map(...) keeps the value set last, which is the auxiliary record, so
\* this fails when the two responses differ on a shared ID.
C12_MergeKeepsPrimaryRecord ==
    \A r \in inflight :
        (r.composite /\ r.stage = "rest") =>
            /\ \A i, j \in 1..Len(r.finalCompanies) :
                  r.finalCompanies[i].id = r.finalCompanies[j].id => i = j
            /\ IdSet(r.finalCompanies) = IdSet(r.scored.data) \cup IdSet(r.unscored.data)
            /\ Range(r.scored.data) \subseteq Range(r.finalCompanies)

\* C15: the change notifications of one short window start at most one
\* refresh between them.
\* The listener calls refreshData on every notification, so this fails.
C15_BurstStartsOneRefresh == burst <= 1

StatsRows == {allCompaniesForStats[i] : i \in 1..Len(allCompaniesForStats)}

\* C13: the statistics are a function of the full-set snapshot only: a step
\* that leaves the snapshot unchanged (a new page, page size, sort, filter
\* or slice) leaves every statistic unchanged, and the total and the
\* per-status counts are those of the snapshot, not of the current page.
C13_StatisticsFromFullSet ==
    [][/\ allCompaniesForStats' = allCompaniesForStats => statistics' = statistics
       /\ statistics'.total = Cardinality(StatsRows')
       /\ statistics'.new = Cardinality({c \in StatsRows' : c.status = "New"})
       /\ statistics'.vetting = Cardinality({c \in StatsRows' : c.status = "Vetting"})
       /\ statistics'.approved = Cardinality({c \in StatsRows' : c.status = "Approved"})
       /\ statistics'.vetted = Cardinality({c \in StatsRows' : c.status = "Vetted"})]_vars

\* the second page (two rows) is on screen and the statistics count all rows
C13_Witness ==
    /\ currentPage = 2 /\ Len(companies) = 2 /\ inflight = {}
    /\ statistics.total = NumRows
    /\ statistics.new = 1 /\ CountStatus(companies, "New") = 0

\* the snapshot with every missing timestamp replaced by an old one
WithOldForMissing ==
    [i \in 1..Len(allCompaniesForStats) |->
        IF allCompaniesForStats[i].created_at = NoDate
        THEN [allCompaniesForStats[i] EXCEPT !.created_at = DaysInWeek + 1]
        ELSE allCompaniesForStats[i]]

\* C14: for every full entity set (empty, all created within the last 7
\* days, with missing timestamps) the weekly-growth statistic is a finite
\* number, never NaN or Infinity; it is 0 for the empty set; a company with
\* a missing timestamp counts toward the total and not toward the week.
C14_WeeklyGrowthFinite ==
    /\ statistics.weeklyGrowth.kind = "finite"
    /\ statistics.weeklyGrowth.den > 0
    /\ allCompaniesForStats = <<>> => statistics.weeklyGrowth = Num(0)
    /\ statistics.total = Len(allCompaniesForStats)
    /\ companiesThisWeek(allCompaniesForStats) =
         Cardinality({i \in 1..Len(allCompaniesForStats) :
                        allCompaniesForStats[i].created_at \in 0..DaysInWeek})
    /\ statistics.weeklyGrowth = statisticsOf(WithOldForMissing).weeklyGrowth

\* a loaded snapshot made of this week's companies only: no previous total
C14_Witness ==
    /\ committed # {}
    /\ Len(allCompaniesForStats) = MaxStatRows
    /\ \A i \in 1..Len(allCompaniesForStats) :
          allCompaniesForStats[i].created_at \in 0..DaysInWeek
    /\ statistics.weeklyGrowth = Num(100)

\* C16: the loading flag is true in every state in which a refresh is still
\* outstanding; the completion of an older refresh does not clear it while
\* a newer one is in flight.
\* Every refreshData ends in setLoading(false) whatever else is in flight,
\* so this fails.
C16_LoadingWhileOutstanding == inflight # {} => loading

C18_NoCallWithoutEligibleIds ==
    [][/\ \A call \in pendingOp' \ pendingOp :
             /\ Len(call.ids) > 0
             /\ call.handler \in {"handleVetSelected", "handleApproveRejectSelected"}
                  => EligibleIds(ActionOfOp(call.op)) # {}
       /\ (errorToasts' = errorToasts + 1 /\ pendingOp' = pendingOp
             /\ InFlightGens' = InFlightGens)
            => /\ selectedCompanies # <<>>
               /\ \E action \in {"vet", "approve", "reject"} : EligibleIds(action) = {}]_vars

\* the loaded page has a selection without any Vetted company, an error was
\* reported and no call is pending
C18_Witness ==
    /\ selectedCompanies # <<>>
    /\ EligibleIds("approve") = {} /\ EligibleIds("vet") # {}
    /\ errorToasts = 1 /\ pendingOp = {}
    /\ gen = 1 /\ committed = {1} /\ db = InitDb

----------------------------------------------------------------------------
\* AddCompaniesDialog, ActiveCampaigns and CampaignBuilder

CHUNK_SIZE == 100

MaxDomains     == 201  \* lines of domains typed into the textarea
MaxFormToasts  == 1    \* destructive toasts of the dialogs and forms explored
MaxFormCalls   == 1    \* archive / campaign handlers suspended at one time
MaxFormRefreshes == 2  \* refreshData invocations explored with the forms

\* everything but the dialogs' state and what refreshData assigns
dataRest == <<mounted, user, fetched, params, selectedCompanies, pendingOp,
              errorToasts, db, writer, committed, budget, burst, activeView,
              selectedCompany, isUpdating, detailCall, viewKind, viewEntities,
              viewFilters, filteredEntities>>

\* a line of the textarea: a word with or without surrounding blanks; word 0
\* is the empty word, so a padded line of word 0 is a line of blanks only
BlankLine == [pad |-> TRUE, word |-> 0]

TextOf(n, padded) ==
    IF padded
    THEN <<BlankLine>> \o [i \in 1..n |-> [pad |-> TRUE, word |-> i]] \o <<BlankLine>>
    ELSE [i \in 1..n |-> [pad |-> FALSE, word |-> i]]

DomainCounts == {0, 1, CHUNK_SIZE, CHUNK_SIZE + 1, MaxDomains}

DomainTexts ==
    {TextOf(n, FALSE) : n \in DomainCounts}
        \cup {TextOf(0, TRUE), TextOf(MaxDomains, TRUE)}

Trim(line) == line.word     \* String.prototype.trim of one line

TextTrimmedEmpty(text) ==
    \* !domains.trim(): nothing but blanks and newlines
    \A i \in 1..Len(text) : Trim(text[i]) = 0

DomainList(text) ==
    \* domains.split("\n").map(d => d.trim()).filter(d => d.length > 0)
    SelectSeq([i \in 1..Len(text) |-> Trim(text[i])], LAMBDA d : d # 0)

OpenAddDialog ==
    \* the Add Companies button of CompaniesView
    /\ mounted /\ activeView = "companies" /\ ~showAddDialog
    /\ showAddDialog' = TRUE
    /\ UNCHANGED <<domains, groupName, isLoading, addCall, addedChunks,
                   showArchiveDialog, archiveCampaignType, archiveCampaignName,
                   selectedContacts, campaignType, isCreating, formCalls,
                   formToasts>>
    /\ UNCHANGED <<dataRest, loading, inflight, gen>>

setDomains(text) ==
    \* typing is followed while no submission is running
    /\ showAddDialog /\ ~isLoading
    /\ text # domains
    /\ domains' = text
    /\ UNCHANGED <<showAddDialog, groupName, isLoading, addCall, addedChunks,
                   showArchiveDialog, archiveCampaignType, archiveCampaignName,
                   selectedContacts, campaignType, isCreating, formCalls,
                   formToasts>>
    /\ UNCHANGED <<dataRest, loading, inflight, gen>>

setGroupName(name) ==
    /\ showAddDialog /\ ~isLoading
    /\ name # groupName
    /\ groupName' = name
    /\ UNCHANGED <<showAddDialog, domains, isLoading, addCall, addedChunks,
                   showArchiveDialog, archiveCampaignType, archiveCampaignName,
                   selectedContacts, campaignType, isCreating, formCalls,
                   formToasts>>
    /\ UNCHANGED <<dataRest, loading, inflight, gen>>

chunkOfOverlapping(list, i) == Slice(list, i, i + CHUNK_SIZE + 1)   \* faulty variant

chunkOf(list, i) == Slice(list, i, i + CHUNK_SIZE)

handleSubmit ==
    \* the submit button is disabled while isLoading; one submission is
    \* followed at a time
    /\ showAddDialog /\ ~isLoading /\ ~addCall.active
    /\ IF TextTrimmedEmpty(domains)
       THEN /\ formToasts < MaxFormToasts
            /\ formToasts' = formToasts + 1
            /\ UNCHANGED <<isLoading, addCall, addedChunks>>
       ELSE /\ isLoading' = TRUE
            /\ addCall' = [active |-> TRUE, live |-> TRUE,
                           list |-> DomainList(domains), group |-> groupName,
                           i |-> 0, onSuccess |-> Closure]
            /\ addedChunks' = <<>>
            /\ UNCHANGED formToasts
    /\ UNCHANGED <<showAddDialog, domains, groupName,
                   showArchiveDialog, archiveCampaignType, archiveCampaignName,
                   selectedContacts, campaignType, isCreating, formCalls>>
    /\ UNCHANGED <<dataRest, loading, inflight, gen>>

AddChunkResolve ==
    \* the server serves the awaited addCompanies call; the loop goes on to
    \* its next call or, after the last one, to the reset and onSuccess();
    \* the state of a dialog that was unmounted meanwhile is not set
    /\ addCall.active
    /\ addedChunks' = Append(addedChunks,
                         [domains |-> chunkOf(addCall.list, addCall.i),
                          group |-> addCall.group])
    /\ IF addCall.i + CHUNK_SIZE < Len(addCall.list)
       THEN /\ addCall' = [addCall EXCEPT !.i = addCall.i + CHUNK_SIZE]
            /\ UNCHANGED <<domains, groupName, showAddDialog, isLoading,
                           loading, inflight, gen>>
       ELSE /\ IF addCall.live
               THEN /\ domains' = <<>>
                    /\ groupName' = ""
                    /\ showAddDialog' = FALSE
                    /\ isLoading' = FALSE
               ELSE UNCHANGED <<domains, groupName, showAddDialog, isLoading>>
            /\ refreshData(addCall.onSuccess)
            /\ addCall' = NoAddCall
    /\ UNCHANGED <<showArchiveDialog, archiveCampaignType, archiveCampaignName,
                   selectedContacts, campaignType, isCreating, formCalls,
                   formToasts>>
    /\ UNCHANGED dataRest

AddChunkReject ==
    \* the awaited call throws: catch raises the toast, finally clears isLoading
    /\ addCall.active
    /\ formToasts < MaxFormToasts
    /\ formToasts' = formToasts + 1
    /\ isLoading' = IF addCall.live THEN FALSE ELSE isLoading
    /\ addCall' = NoAddCall
    /\ UNCHANGED <<showAddDialog, domains, groupName, addedChunks,
                   showArchiveDialog, archiveCampaignType, archiveCampaignName,
                   selectedContacts, campaignType, isCreating, formCalls>>
    /\ UNCHANGED <<dataRest, loading, inflight, gen>>

CloseAddDialog ==
    \* Cancel, disabled while isLoading
    /\ showAddDialog /\ ~isLoading
    /\ showAddDialog' = FALSE
    /\ UNCHANGED <<domains, groupName, isLoading, addCall, addedChunks,
                   showArchiveDialog, archiveCampaignType, archiveCampaignName,
                   selectedContacts, campaignType, isCreating, formCalls,
                   formToasts>>
    /\ UNCHANGED <<dataRest, loading, inflight, gen>>

GroupNameChoices == {"", "g2"}

CampaignTypes == {"email", "linkedin"}

CampaignNameInputs == {"", " ", " q3 "}

TrimName(name) ==
    \* String.prototype.trim on the names typed here
    CASE name = " "    -> ""
      [] name = " q3 " -> "q3"
      [] OTHER         -> name

FormCall(op, type, name, ids) ==
    \* a handler suspended at its await; onRefresh is the one of its render
    [op |-> op, type |-> type, name |-> name, ids |-> ids, live |-> TRUE,
     onRefresh |-> Closure]

handleArchiveClick(type) ==
    /\ mounted /\ activeView = "campaigns"
    /\ archiveCampaignType' = type
    /\ archiveCampaignName' = ""
    /\ showArchiveDialog' = TRUE
    /\ UNCHANGED <<showAddDialog, domains, groupName, isLoading, addCall,
                   addedChunks, selectedContacts, campaignType, isCreating,
                   formCalls, formToasts>>
    /\ UNCHANGED <<dataRest, loading, inflight, gen>>

setArchiveCampaignName(name) ==
    /\ showArchiveDialog
    /\ name # archiveCampaignName
    /\ archiveCampaignName' = name
    /\ UNCHANGED <<showAddDialog, domains, groupName, isLoading, addCall,
                   addedChunks, showArchiveDialog, archiveCampaignType,
                   selectedContacts, campaignType, isCreating, formCalls,
                   formToasts>>
    /\ UNCHANGED <<dataRest, loading, inflight, gen>>

nameGivenUntrimmed(name) == name # ""    \* faulty variant: blanks count as a name

nameGiven(name) == TrimName(name) # ""

handleConfirmArchive ==
    \* calls CampaignsView.handleArchiveCampaign, which runs to its await
    /\ showArchiveDialog
    /\ IF nameGiven(archiveCampaignName)
       THEN /\ Cardinality(formCalls) < MaxFormCalls
            /\ formCalls' = formCalls \cup
                   {FormCall("archiveCampaign", archiveCampaignType,
                             TrimName(archiveCampaignName), <<>>)}
            /\ showArchiveDialog' = FALSE
       ELSE UNCHANGED <<formCalls, showArchiveDialog>>
    /\ UNCHANGED <<showAddDialog, domains, groupName, isLoading, addCall,
                   addedChunks, archiveCampaignType, archiveCampaignName,
                   selectedContacts, campaignType, isCreating, formToasts>>
    /\ UNCHANGED <<dataRest, loading, inflight, gen>>

CloseArchiveDialog ==
    \* Cancel
    /\ showArchiveDialog
    /\ showArchiveDialog' = FALSE
    /\ UNCHANGED <<showAddDialog, domains, groupName, isLoading, addCall,
                   addedChunks, archiveCampaignType, archiveCampaignName,
                   selectedContacts, campaignType, isCreating, formCalls,
                   formToasts>>
    /\ UNCHANGED <<dataRest, loading, inflight, gen>>

readyToAssign == contacts

handleSelectContact(contactId, checked) ==
    /\ mounted /\ activeView = "campaigns"
    /\ Includes(readyToAssign, contactId)
    /\ checked = ~Includes(selectedContacts, contactId)
    /\ selectedContacts' = IF checked
                           THEN Append(selectedContacts, contactId)
                           ELSE Without(selectedContacts, contactId)
    /\ UNCHANGED <<showAddDialog, domains, groupName, isLoading, addCall,
                   addedChunks, showArchiveDialog, archiveCampaignType,
                   archiveCampaignName, campaignType, isCreating, formCalls,
                   formToasts>>
    /\ UNCHANGED <<dataRest, loading, inflight, gen>>

handleSelectAllContacts(checked) ==
    /\ mounted /\ activeView = "campaigns"
    /\ Len(readyToAssign) > 0
    /\ selectedContacts' = IF checked THEN readyToAssign ELSE <<>>
    /\ selectedContacts' # selectedContacts
    /\ UNCHANGED <<showAddDialog, domains, groupName, isLoading, addCall,
                   addedChunks, showArchiveDialog, archiveCampaignType,
                   archiveCampaignName, campaignType, isCreating, formCalls,
                   formToasts>>
    /\ UNCHANGED <<dataRest, loading, inflight, gen>>

setCampaignType(type) ==
    /\ mounted /\ activeView = "campaigns"
    /\ type # campaignType
    /\ campaignType' = type
    /\ UNCHANGED <<showAddDialog, domains, groupName, isLoading, addCall,
                   addedChunks, showArchiveDialog, archiveCampaignType,
                   archiveCampaignName, selectedContacts, isCreating,
                   formCalls, formToasts>>
    /\ UNCHANGED <<dataRest, loading, inflight, gen>>

handleCreateCampaign ==
    \* the button is disabled while isCreating; the addContactToCampaign
    \* calls of Promise.all are awaited as one
    /\ mounted /\ activeView = "campaigns" /\ ~isCreating
    /\ IF Len(selectedContacts) = 0
       THEN /\ formToasts < MaxFormToasts
            /\ formToasts' = formToasts + 1
            /\ UNCHANGED <<isCreating, formCalls>>
       ELSE /\ Cardinality(formCalls) < MaxFormCalls
            /\ isCreating' = TRUE
            /\ formCalls' = formCalls \cup
                   {FormCall("addContactToCampaign", campaignType, "",
                             selectedContacts)}
            /\ UNCHANGED formToasts
    /\ UNCHANGED <<showAddDialog, domains, groupName, isLoading, addCall,
                   addedChunks, showArchiveDialog, archiveCampaignType,
                   archiveCampaignName, selectedContacts, campaignType>>
    /\ UNCHANGED <<dataRest, loading, inflight, gen>>

FormCallResolve(call) ==
    \* success toast, then onRefresh(); the campaign builder also clears its
    \* selection and, in finally, isCreating
    /\ call \in formCalls
    /\ formCalls' = formCalls \ {call}
    /\ refreshData(call.onRefresh)
    /\ IF call.op = "addContactToCampaign" /\ call.live
       THEN selectedContacts' = <<>> /\ isCreating' = FALSE
       ELSE UNCHANGED <<selectedContacts, isCreating>>
    /\ UNCHANGED <<showAddDialog, domains, groupName, isLoading, addCall,
                   addedChunks, showArchiveDialog, archiveCampaignType,
                   archiveCampaignName, campaignType, formToasts>>
    /\ UNCHANGED dataRest

FormCallReject(call) ==
    /\ call \in formCalls
    /\ formToasts < MaxFormToasts
    /\ formCalls' = formCalls \ {call}
    /\ formToasts' = formToasts + 1
    /\ isCreating' = IF call.op = "addContactToCampaign" /\ call.live
                     THEN FALSE ELSE isCreating
    /\ UNCHANGED <<showAddDialog, domains, groupName, isLoading, addCall,
                   addedChunks, showArchiveDialog, archiveCampaignType,
                   archiveCampaignName, selectedContacts, campaignType>>
    /\ UNCHANGED <<dataRest, loading, inflight, gen>>

DashboardViews == {"companies", "campaigns"}

setActiveView(view) ==
    \* the sidebar; renderContent mounts the one view of activeView, so the
    \* state of the view that is left is dropped with it, while handlers
    \* suspended at an await go on with the closures they hold; an open
    \* dialog is modal and keeps the sidebar out of reach
    /\ mounted /\ ~showAddDialog /\ ~showArchiveDialog
    /\ view # activeView
    /\ activeView' = view
    /\ IF activeView = "companies"
       THEN /\ selectedCompanies' = <<>>
            /\ selectedCompany' = <<>>
            /\ isUpdating' = FALSE
            /\ showAddDialog' = FALSE
            /\ domains' = <<>>
            /\ groupName' = ""
            /\ isLoading' = FALSE
            /\ addCall' = [addCall EXCEPT !.live = FALSE]
            /\ UNCHANGED <<showArchiveDialog, archiveCampaignType,
                           archiveCampaignName, selectedContacts, campaignType,
                           isCreating, formCalls>>
       ELSE /\ showArchiveDialog' = FALSE
            /\ archiveCampaignType' = "email"
            /\ archiveCampaignName' = ""
            /\ selectedContacts' = <<>>
            /\ campaignType' = "email"
            /\ isCreating' = FALSE
            /\ formCalls' = {[call EXCEPT !.live = FALSE] : call \in formCalls}
            /\ UNCHANGED <<selectedCompanies, selectedCompany, isUpdating,
                           showAddDialog, domains, groupName, isLoading, addCall>>
    /\ UNCHANGED <<mounted, user, fetched, params, pendingOp, errorToasts, db,
                   writer, committed, budget, burst, addedChunks, formToasts,
                   loading, inflight, gen, detailCall, viewKind, viewEntities,
                   viewFilters, filteredEntities>>

FormInit == InitWith(MaxFormRefreshes)

FormNext ==
    \/ Mount
    \/ \E r \in inflight : ScoredResolve(r)
    \/ \E r \in inflight : RefreshCommit(r)
    \/ \E view \in DashboardViews : setActiveView(view)
    \/ OpenAddDialog
    \/ CloseAddDialog
    \/ \E text \in DomainTexts : setDomains(text)
    \/ \E name \in GroupNameChoices : setGroupName(name)
    \/ handleSubmit
    \/ AddChunkResolve
    \/ AddChunkReject
    \/ \E type \in CampaignTypes : handleArchiveClick(type)
    \/ \E name \in CampaignNameInputs : setArchiveCampaignName(name)
    \/ handleConfirmArchive
    \/ CloseArchiveDialog
    \/ \E id \in 1..NumRows, checked \in BOOLEAN : handleSelectContact(id, checked)
    \/ \E checked \in BOOLEAN : handleSelectAllContacts(checked)
    \/ \E type \in CampaignTypes : setCampaignType(type)
    \/ handleCreateCampaign
    \/ \E call \in formCalls : FormCallResolve(call)
    \/ \E call \in formCalls : FormCallReject(call)

FormSpec == FormInit /\ [][FormNext]_vars

----------------------------------------------------------------------------
\* Properties of the dialogs and campaign forms

WhitespaceOnly(text) == \A i \in 1..Len(text) : text[i].word = 0

Request(call) == <<call.op, call.type, call.name, call.ids>>

\* the calls of the forms that this step sends
IssuedFormCalls ==
    {call \in formCalls' : \A old \in formCalls : Request(old) # Request(call)}

\* C19: a step that issues an HTTP call from one of the forms starts from a
\* valid input: an addCompanies call from a textarea holding a domain, an
\* archiveCampaign call from a campaign name that is not empty or blank, an
\* addContactToCampaign call from a non-empty contact selection; and the
\* call carries a non-empty domain list, name or contact list.
C19_InvalidInputIssuesNoCall ==
    [][/\ (addCall'.active /\ ~addCall.active)
            => ~WhitespaceOnly(domains) /\ addCall'.list # <<>>
       /\ \A call \in IssuedFormCalls :
             /\ call.op = "archiveCampaign"
                  => archiveCampaignName \notin {"", " "} /\ call.name # ""
             /\ call.op = "addContactToCampaign"
                  => selectedContacts # <<>> /\ call.ids # <<>>]_vars

\* a blank campaign name is in the open archive dialog of the campaigns
\* view, a toast was raised there and no call was ever issued by a form
C19_Witness ==
    /\ activeView = "campaigns"
    /\ showArchiveDialog /\ archiveCampaignName = " "
    /\ selectedContacts = <<>> /\ formToasts = 1
    /\ formCalls = {} /\ ~addCall.active /\ addedChunks = <<>>
    /\ gen = 1

RECURSIVE Concat(_)
Concat(chunks) ==
    IF chunks = <<>> THEN <<>> ELSE Head(chunks).domains \o Concat(Tail(chunks))

\* C20: a submission starts with the trimmed non-empty lines of the textarea
\* and an empty record of served calls; every served call adds one chunk of
\* 1..100 domains such that the chunks served so far, put end to end, are a
\* prefix of the list, and the submission ends exactly when they are the
\* whole list; when a call fails, the chunks served before stay, no further
\* call is pending, a destructive toast is raised and isLoading is cleared.
C20_ChunkedInOrderNoRollback ==
    [][/\ (addCall'.active /\ ~addCall.active)
            => /\ addCall'.i = 0 /\ addedChunks' = <<>> /\ isLoading'
               /\ Len(addCall'.list) > 0
               /\ \A i \in 1..Len(addCall'.list) : addCall'.list[i] # 0
       /\ (addCall.active /\ addedChunks' # addedChunks)
            => LET k    == Len(addedChunks')
                   done == Min(k * CHUNK_SIZE, Len(addCall.list))
               IN  /\ k = Len(addedChunks) + 1
                   /\ SubSeq(addedChunks', 1, k - 1) = addedChunks
                   /\ Len(addedChunks'[k].domains) \in 1..CHUNK_SIZE
                   /\ Concat(addedChunks') = SubSeq(addCall.list, 1, done)
                   /\ IF done = Len(addCall.list)
                      THEN ~addCall'.active /\ ~isLoading'
                             /\ formToasts' = formToasts
                      ELSE addCall'.active /\ addCall'.list = addCall.list
                             /\ isLoading'
       /\ (addCall.active /\ addedChunks' = addedChunks /\ addCall' # addCall)
            => /\ ~addCall'.active
               /\ formToasts' = formToasts + 1
               /\ ~isLoading']_vars

\* the third call of a submission of MaxDomains domains failed: two chunks
\* stay served, the dialog is still open with its text, nothing is loading
C20_Witness ==
    /\ showAddDialog /\ ~isLoading /\ ~addCall.active
    /\ Len(DomainList(domains)) = MaxDomains
    /\ Len(addedChunks) = 2 /\ Len(Concat(addedChunks)) = 2 * CHUNK_SIZE
    /\ formToasts = 1
    /\ gen = 1

----------------------------------------------------------------------------
(* A session over a table that also holds a company still being vetted,   *)
(* without scores yet: filters and the refreshes they start.              *)

MaxFilterRefreshes == 3

FilterDb ==
    [InitDb EXCEPT ![NumRows - 5].status = "Vetting",
                   ![NumRows - 5].score = NoScore]

FilterInit == InitFrom(MaxFilterRefreshes, FilterDb)

FilterNext ==
    \/ Mount
    \/ \E r \in inflight : ScoredResolve(r)
    \/ \E r \in inflight : UnscoredResolve(r)
    \/ \E r \in inflight : RefreshReject(r)
    \/ \E r \in inflight : RefreshCommit(r)
    \/ \E status \in Statuses : handleStatusToggle(status)
    \/ \E ranges \in ScoreRangeInputs : applyScoreFilters(ranges)
    \/ handleIncludeNullScores
    \/ clearFilters

FilterSpec == FilterInit /\ [][FilterNext]_vars

----------------------------------------------------------------------------
\* Properties of the filtered refresh

\* the search, status and group rules of a Filter Specification
PassesSearchStatusGroup(row, f) ==
    /\ f.search = "" \/ f.search = row.domain
    /\ f.status = <<>> \/ \E i \in 1..Len(f.status) : f.status[i] = row.status
    /\ \/ f.group = <<>>
       \/ \E i \in 1..Len(f.group) :
             \/ f.group[i] = row.group_name
             \/ f.group[i] = "No Group" /\ row.group_name = ""

\* the rows of the table that the filters of a refresh let through when a
\* missing score passes every range check
PassingWithUnscored(f) ==
    {i \in 1..Len(db) :
        /\ PassesSearchStatusGroup(db[i], f)
        /\ db[i].score # NoScore =>
              \A d \in ScoreDims : /\ f.scoreRanges[d][1] <= db[i].score
                                   /\ db[i].score <= f.scoreRanges[d][2]}

\* C21: when a refresh with include_null_scores = true and a narrowed range
\* commits its first page, and everything the filters let through fits on
\* that page, every company without a score that passes the search, status
\* and group rules is in the displayed slice.
C21_UnscoredPassRangeCheck ==
    [][\A r \in inflight :
          (/\ writer'.companies = r.gen /\ writer.companies # r.gen
           /\ r.filters.include_null_scores = "true"
           /\ \E d \in ScoreDims : r.filters.scoreRanges[d] # <<0, 10>>
           /\ r.page = 1
           /\ Cardinality(PassingWithUnscored(r.filters)) <= r.limit)
          => \A i \in PassingWithUnscored(r.filters) :
                db[i].score = NoScore => HasId(companies', db[i].id)]_vars

----------------------------------------------------------------------------
(* The views that filter in the browser, over the lists they can be given *)

ClientFilterInit ==
    /\ InitCore(MaxRefreshes, InitDb)
    /\ viewKind \in {"contacts", "companies"}
    /\ viewEntities \in ListsOver(IF viewKind = "contacts"
                                  THEN ContactInputs ELSE CompanyInputs)
    /\ viewFilters = IF viewKind = "contacts"
                     THEN contactsDefaultFilters ELSE companiesDefaultFilters
    /\ filteredEntities = clientFilter(viewKind, viewEntities, viewFilters)

ClientFilterNext ==
    \/ \E f \in ContactsFilterInputs \cup CompaniesFilterInputs : setViewFilters(f)
    \/ \E list \in {filteredEntities, Reverse(viewEntities)} : setViewEntities(list)

ClientFilterSpec == ClientFilterInit /\ [][ClientFilterNext]_vars

IsSubsequence(short, long) ==
    \E pick \in SUBSET (1..Len(long)) :
        short = [n \in 1..Cardinality(pick) |->
                    long[CHOOSE i \in pick : Cardinality({j \in pick : j < i}) = n - 1]]

\* C22: what a view shows is a fixed point of its filter, it keeps the order
\* of the list it was given, and the filter applied to the list in reverse
\* order gives the same result in reverse order.
C22_ClientFilterIdempotent ==
    /\ clientFilter(viewKind, filteredEntities, viewFilters) = filteredEntities
    /\ IsSubsequence(filteredEntities, viewEntities)
    /\ clientFilter(viewKind, Reverse(viewEntities), viewFilters)
          = Reverse(filteredEntities)

\* the contacts view was given its own filtered list, under filters that had
\* removed a contact and kept two
C22_Witness ==
    /\ viewKind = "contacts"
    /\ viewFilters # contactsDefaultFilters
    /\ viewEntities = filteredEntities
    /\ Len(filteredEntities) = MaxEntities - 1
    /\ \E c \in ContactInputs : ~matchesContact(c, viewFilters)

----------------------------------------------------------------------------
(* CompanyDetailModal: approve or reject the one company it shows *)

MaxOpened == 2       \* rows whose detail view is opened
MaxDetailRefreshes == 2

\* everything but the detail view's state and what refreshData assigns
detailRest == <<mounted, user, fetched, params, selectedCompanies, pendingOp,
                errorToasts, writer, committed, budget, burst, activeView,
                showAddDialog, domains, groupName, isLoading, addCall,
                addedChunks, showArchiveDialog, archiveCampaignType,
                archiveCampaignName, selectedContacts, campaignType, isCreating,
                formCalls, formToasts, viewKind, viewEntities, viewFilters,
                filteredEntities>>

onCompanyClick(company) ==
    \* a row of the table: setSelectedCompany(company) mounts the modal
    /\ TableShown /\ selectedCompany = <<>>
    /\ Includes(companies, company) /\ company.id > NumRows - MaxOpened
    /\ selectedCompany' = <<company>>
    /\ UNCHANGED <<isUpdating, detailCall, db, loading, inflight, gen, detailRest>>

CloseDetail ==
    \* onOpenChange(false): setSelectedCompany(null) unmounts the modal
    /\ selectedCompany # <<>>
    /\ selectedCompany' = <<>>
    /\ isUpdating' = FALSE
    /\ UNCHANGED <<detailCall, db, loading, inflight, gen, detailRest>>

canApproveReject == selectedCompany # <<>> /\ selectedCompany[1].status = "Vetted"

handleApproveOrReject(op) ==
    \* handleApprove / handleReject of the modal, up to the await inside the
    \* onApprove / onReject closure of CompaniesView; the buttons are rendered
    \* for a Vetted company and disabled while isUpdating
    /\ canApproveReject /\ ~isUpdating /\ detailCall = <<>>
    /\ isUpdating' = TRUE
    /\ detailCall' = <<[op |-> op, id |-> selectedCompany[1].id, onRefresh |-> Closure]>>
    /\ UNCHANGED <<selectedCompany, db, loading, inflight, gen, detailRest>>

DetailResolve ==
    \* the call succeeds: onRefresh(), setSelectedCompany(null), then finally
    /\ detailCall # <<>>
    /\ db' = ServerApply(IF detailCall[1].op = "approveCompany"
                         THEN "approveCompanies" ELSE "rejectCompanies",
                         <<detailCall[1].id>>, "")
    /\ refreshData(detailCall[1].onRefresh)
    /\ selectedCompany' = <<>>
    /\ isUpdating' = FALSE
    /\ detailCall' = <<>>
    /\ UNCHANGED detailRest

DetailReject ==
    \* the call throws: neither closure nor modal has a catch, finally clears
    \* isUpdating and the rejection is left unhandled
    /\ detailCall # <<>>
    /\ isUpdating' = FALSE
    /\ detailCall' = <<>>
    /\ UNCHANGED <<selectedCompany, db, loading, inflight, gen, detailRest>>

DetailInit == InitWith(MaxDetailRefreshes)

DetailNext ==
    \/ Mount
    \/ \E r \in inflight : ScoredResolve(r)
    \/ \E r \in inflight : RefreshReject(r)
    \/ \E r \in inflight : RefreshCommit(r)
    \/ \E n \in 1..(NumRows + 1) : SetPage(n)
    \/ \E id \in 1..NumRows : handleSelectCompany(id)
    \/ handleVetSelected
    \/ \E call \in pendingOp : BulkResolve(call)
    \/ \E call \in pendingOp : BulkReject(call)
    \/ \E company \in Range(companies) : onCompanyClick(company)
    \/ CloseDetail
    \/ \E op \in {"approveCompany", "rejectCompany"} : handleApproveOrReject(op)
    \/ DetailResolve
    \/ DetailReject

DetailSpec == DetailInit /\ [][DetailNext]_vars

\* C23: a step in which an external operation ends in failure (a refresh
\* leaves without committing, a bulk call leaves without starting a refresh,
\* the call of the detail view leaves without starting a refresh, an
\* add-companies submission ends before its list is served) raises exactly
\* one error notification and leaves the paginated slice, the total, the
\* full-set snapshot, the filters and the pagination parameters as they were.
C23_FailureNotifiesOnceKeepsState ==
    [][LET refreshFailed == \E g \in InFlightGens :
                               g \notin InFlightGens' /\ g \notin committed'
           bulkFailed    == \E call \in pendingOp : call \notin pendingOp' /\ gen' = gen
           detailFailed  == detailCall # <<>> /\ detailCall' = <<>> /\ gen' = gen
           chunkFailed   == addCall.active /\ ~addCall'.active
                              /\ addedChunks' = addedChunks
           raised        == (errorToasts' - errorToasts) + (formToasts' - formToasts)
       IN  (refreshFailed \/ bulkFailed \/ detailFailed \/ chunkFailed)
              => raised = 1 /\ UNCHANGED <<fetched, params>>]_vars

----------------------------------------------------------------------------
\* Properties of the selection

PageIds == {companies[i].id : i \in 1..Len(companies)}

\* C24: a step of the table's checkboxes either selects exactly the IDs of
\* the page on display, in page order (select all), or empties a selection
\* that held the whole page (unselect all), or appends one ID of the page
\* that was not selected, or removes one selected ID and nothing else.
C24_SelectionHandlers ==
    [][(selectedCompanies' # selectedCompanies /\ pendingOp' = pendingOp)
         => \/ /\ selectedCompanies' = [i \in 1..Len(companies) |-> companies[i].id]
               /\ Len(selectedCompanies) # Len(companies)
            \/ /\ selectedCompanies' = <<>>
               /\ Len(selectedCompanies) = Len(companies)
            \/ \E id \in PageIds \ Range(selectedCompanies) :
                  selectedCompanies' = Append(selectedCompanies, id)
            \/ \E id \in Range(selectedCompanies) :
                  /\ id \notin Range(selectedCompanies')
                  /\ selectedCompanies' =
                        SelectSeq(selectedCompanies, LAMBDA other : other # id)]_vars

\* the whole first page is selected while the filtered result has more
\* companies than the page
C24_Witness ==
    /\ Len(companies) = itemsPerPage /\ totalCompanies > itemsPerPage
    /\ selectedCompanies = [i \in 1..Len(companies) |-> companies[i].id]
    /\ pendingOp = {}

----------------------------------------------------------------------------
\* Properties of the queries of a refresh

Narrowed(f) == \E d \in ScoreDims : f.scoreRanges[d] # <<0, 10>>

\* what the server answers to the auxiliary query: page 1 of 1000, statuses
\* New and Failed, every score range [0, 10], newest first
AuxiliaryAnswer(f) ==
    ServerGetCompanies(1, 1000,
        [search |-> f.search, group |-> f.group, status |-> <<"New", "Failed">>,
         scoreRanges |-> [d \in ScoreDims |-> <<0, 10>>]],
        "created_at", "desc")

\* the contacts and full-set fetches of a refresh are outstanding
RestIssued(r) == r.stage = "rest"

C26_OneWriterForAll ==
    /\ writer.totalCompanies = writer.companies
    /\ writer.contacts = writer.companies
    /\ writer.allCompaniesForStats = writer.companies

\* two refreshes overlapped and both committed, the older one last
C26_Witness ==
    /\ committed = {1, 2} /\ inflight = {}
    /\ writer.companies = 1

\* the refresh that commits in this step, if any
Committing(r) ==
    r \in inflight /\ r.stage = "rest" /\ r.gen \in committed' \ committed

\* C27: every company of the slice a refresh puts on display has a status
\* of the status set the refresh was started with, when that set is not
\* empty; also for the composite refresh of a narrowed score range.
C27_SliceSatisfiesStatusSet ==
    [][\A r \in inflight :
          Committing(r) /\ r.filters.status # <<>>
            => \A i \in 1..Len(companies') :
                  Includes(r.filters.status, companies'[i].status)]_vars

\* C28: the slice a refresh puts on display holds at most the page size
\* the refresh asked for.
C28_SliceWithinPageSize ==
    [][\A r \in inflight :
          Committing(r) => Len(companies') <= r.limit]_vars

\* C29: a step in which the external call of a bulk action fails (the call
\* is no longer pending and the error toast was raised) leaves the selection
\* as it was and starts no refresh.
C29_FailureKeepsSelection ==
    [][\A call \in pendingOp \ pendingOp' :
          errorToasts' = errorToasts + 1
            => /\ selectedCompanies' = selectedCompanies
               /\ gen' = gen /\ inflight' = inflight]_vars

\* C30: a step that changes the Filter Specification in the include-unscored
\* toggle only changes the parameters of the listCompanies request.
C30_ToggleChangesRequest ==
    [][(/\ filters'.include_null_scores # filters.include_null_scores
        /\ filters' = [filters EXCEPT !.include_null_scores =
                                          filters'.include_null_scores])
          => getCompaniesParams(currentPage', itemsPerPage', filters', sortBy', sortDir')
               # getCompaniesParams(currentPage, itemsPerPage, filters, sortBy, sortDir)]_vars
====
